---- MODULE Spec2Model ----
(***************************************************************************)
(* Model of the glGA ECSS registry (ECSSManager) and of the Component      *)
(* leaves it manages.  Objects are identified by name-like strings; the    *)
(* registry's collections are the Python lists / dict of ECSSManager.      *)
(***************************************************************************)
EXTENDS Integers, Sequences, FiniteSets, TLC

VARIABLES
    entities,             \* ECSSManager._entities
    components,           \* ECSSManager._components
    cameras,              \* ECSSManager._cameras
    systems,              \* ECSSManager._systems
    entities_components,  \* ECSSManager._entities_components (dict: entity -> list)
    root,                 \* ECSSManager._root
    children,             \* Entity._children, per entity, in add() order
    parent,               \* _parent of every scene node
    call,                 \* the registry call that was made last
    ret,                  \* what that call returned, as its printed form
    raised,               \* the error that call raised ("none": returned normally)
    instance,             \* ECSSManager._instance (0: None, else the object's number)
    allocated,            \* how many ECSSManager objects object.__new__ has made
    fields,               \* the attributes of every Component object
    visits,               \* the System methods the last call invoked, in order
    kwargs                \* the keyword arguments of the last call

vars == <<entities, components, cameras, systems, entities_components, root,
          children, parent, call, ret, raised, instance, allocated, fields,
          visits, kwargs>>

\* what the registry calls leave alone
others == <<instance, allocated, fields, visits, kwargs>>

registry == <<entities, components, cameras, systems, entities_components, root>>

\* ---------------------------------------------------------------- bounds
MaxSize == 4    \* registrations, attachments and links made in one run
MaxOptions == 2 \* keyword arguments given to one update() call

\* --------------------------------------------------------------- objects
None == "None"

Entities == {"e1", "e2", "e3"}
Transforms == {"t1", "t2"}
CameraComps == {"c1"}
RenderMeshes == {"r1"}
Components == Transforms \cup CameraComps \cup RenderMeshes
Systems == {"s1"}
Objects == Entities \cup Components \cup Systems

\* the entities the registry is driven with
SceneEntities == {"e1", "e2"}

\* arguments of another class than the one the method expects are tried too
EntityArgs == SceneEntities \cup Systems
ComponentArgs == Components \cup Systems

\* type(component): the three concrete classes are siblings under Component
Kind(c) ==
    IF c \in Transforms THEN "BasicTransform"
    ELSE IF c \in CameraComps THEN "Camera"
    ELSE "RenderMesh"

\* isinstance(el, type(component))
IsInstanceOfKind(el, k) == el \in Components /\ Kind(el) = k

\* Entity.name, as the sequence of its characters
EntityName(e) ==
    IF e = "e1" THEN <<"R", "o", "O", "t">> ELSE <<"n", "o", "d", "e">>

UpperChars == <<"D", "E", "N", "O", "R", "T">>
LowerChars == <<"d", "e", "n", "o", "r", "t">>

\* str.lower(), character by character
LowerChar(ch) ==
    IF \E i \in 1..Len(UpperChars) : UpperChars[i] = ch
    THEN LowerChars[CHOOSE i \in 1..Len(UpperChars) : UpperChars[i] = ch]
    ELSE ch

Lower(s) == [i \in 1..Len(s) |-> LowerChar(s[i])]

RootName == <<"r", "o", "o", "t">>

IsRootName_NoLower(name) == name = RootName

\* entity.name.lower() == "root"
IsRootName(name) == Lower(name) = RootName

Range(s) == {s[i] : i \in 1..Len(s)}

\* the elements of a list that satisfy a membership test, in list order
RECURSIVE Restrict(_, _)
Restrict(s, S) ==
    IF s = <<>> THEN <<>>
    ELSE IF Head(s) \in S THEN <<Head(s)>> \o Restrict(Tail(s), S)
    ELSE Restrict(Tail(s), S)

\* what an Entity carries: the components, and the child entities, given to add()
EntityComponents(e) == Restrict(children[e], Components)
EntityChildren(e) == Restrict(children[e], Entities)

\* how many times an Entity was given to some Entity's add()
RECURSIVE CountLinks(_)
CountLinks(S) ==
    IF S = {} THEN 0
    ELSE LET e == CHOOSE x \in S : TRUE
         IN  Len(EntityChildren(e)) + CountLinks(S \ {e})

\* what the calls made so far have added to the registry and to the entities
Size == Len(entities) + Len(components) + Len(cameras) + CountLinks(Entities)

\* ------------------------------------------------- Component.__init__
Identity == "I"          \* util.identity()
ProjMatrix == "P"        \* the projMatrix a Camera is constructed with

\* **kwargs of update(): for every name the matrix passed, or Absent
OptionNames == {"trs", "l2world", "l2cam", "root2cam", "colour"}
Matrices == {Identity, "M"}
Absent == "absent"
Given(kw) == {a \in OptionNames : kw[a] # Absent}
NoKwargs == [a \in OptionNames |-> Absent]
Kwargs ==
    {kw \in [OptionNames -> Matrices \cup {Absent}] :
        Cardinality(Given(kw)) <= MaxOptions}

\* the attributes the constructor of each concrete class sets
ComponentInit(c) ==
    CASE Kind(c) = "BasicTransform" ->
            [trs |-> Identity, l2world |-> Identity, l2cam |-> Identity,
             children |-> <<>>]
      [] Kind(c) = "Camera" ->
            [projMat |-> ProjMatrix, root2cam |-> Identity]
      [] OTHER ->
            [trs |-> Identity, children |-> <<>>]

\* ------------------------------------------------------------------ Init
Init ==
    /\ entities = <<>>
    /\ components = <<>>
    /\ cameras = <<>>
    /\ systems = <<>>
    /\ entities_components = <<>>
    /\ root = None
    /\ children = [e \in Entities |-> <<>>]
    /\ parent = [n \in Objects |-> n]
    /\ call = [op |-> "init", a |-> None, b |-> None]
    /\ ret = None
    /\ raised = "none"
    /\ instance = 1
    /\ allocated = 1
    /\ fields = [c \in Components |-> ComponentInit(c)]
    /\ visits = <<>>
    /\ kwargs = NoKwargs

\* ---------------------------------------------------------- createEntity
MappingAfterCreate_Skipped(ec, entity) == ec

\* self._entities_components[entity] = [None]
MappingAfterCreate(ec, entity) ==
    [k \in DOMAIN ec \cup {entity} |-> IF k = entity THEN <<None>> ELSE ec[k]]

createEntity(entity) ==
    /\ entity \in Entities => Size < MaxSize
    /\ IF entity \in Entities
       THEN /\ entities' = Append(entities, entity)
            /\ entities_components' = MappingAfterCreate(entities_components, entity)
            /\ root' = IF IsRootName(EntityName(entity)) THEN entity ELSE root
       ELSE UNCHANGED <<entities, entities_components, root>>
    /\ call' = [op |-> "createEntity", a |-> entity, b |-> None]
    /\ ret' = entity
    /\ raised' = "none"
    /\ UNCHANGED <<components, cameras, systems, children, parent>>
    /\ UNCHANGED others

\* ------------------------------------------------------------ Entity.add
\* Entity.add(object): object joins self's children and gets self as parent
EntityAddChildren(ch, self, object) == [ch EXCEPT ![self] = Append(@, object)]
EntityAddParent(par, self, object) == [par EXCEPT ![object] = self]

\* the entities above e: its parent, the parent's parent, ... up to the node
\* that is its own parent (the "unattached" sentinel)
RECURSIVE AncestorsFrom(_, _, _)
AncestorsFrom(par, e, fuel) ==
    IF fuel = 0 \/ par[e] = e THEN {}
    ELSE {par[e]} \cup AncestorsFrom(par, par[e], fuel - 1)

Ancestors(par, e) == AncestorsFrom(par, e, Cardinality(Entities))

\* Entity.add(object) fails with InvalidHierarchy when object is self or one
\* of the entities above self
EntityAddRaises(par, self, object) ==
    object \in Entities /\ (object = self \/ object \in Ancestors(par, self))

\* ---------------------------------------------------------- addComponent
CamerasAfterAdd_Swapped(cams, component) ==
    IF Kind(component) = "Camera" THEN cams ELSE Append(cams, component)

\* the camera branch of "if isinstance(component, Component.Camera)"
CamerasAfterAdd(cams, component) ==
    IF Kind(component) = "Camera" THEN Append(cams, component) ELSE cams

\* the else branch: every other component goes to _components
ComponentsAfterAdd(comps, component) ==
    IF Kind(component) = "Camera" THEN comps ELSE Append(comps, component)

\* "for el in value": a same-kind element only rebinds the loop variable and
\* the loop goes on; the first element of another kind (the None placeholder
\* included) attaches the component and returns
RECURSIVE ScanValue(_, _, _)
ScanValue(value, i, component) ==
    IF i > Len(value)
    THEN [added |-> FALSE, value |-> value]
    ELSE IF IsInstanceOfKind(value[i], Kind(component))
         THEN ScanValue(value, i + 1, component)
         ELSE [added |-> TRUE,
               value |-> IF value[1] = None
                         THEN [value EXCEPT ![1] = component]
                         ELSE Append(value, component)]

addComponent(entity, component) ==
    /\ (entity \in Entities /\ component \in Components)
          => Size < MaxSize
    /\ call' = [op |-> "addComponent", a |-> entity, b |-> component]
    /\ raised' = "none"
    /\ UNCHANGED <<entities, systems, root>>
    /\ UNCHANGED others
    /\ IF entity \in Entities /\ component \in Components
       THEN /\ cameras' = CamerasAfterAdd(cameras, component)
            /\ components' = ComponentsAfterAdd(components, component)
            /\ IF entity \in DOMAIN entities_components
               THEN LET scan == ScanValue(entities_components[entity], 1, component)
                    IN  IF scan.added
                        THEN /\ children' = EntityAddChildren(children, entity, component)
                             /\ parent' = EntityAddParent(parent, entity, component)
                             /\ entities_components' =
                                   [entities_components EXCEPT ![entity] = scan.value]
                             /\ ret' = component
                        ELSE /\ UNCHANGED <<children, parent, entities_components>>
                             /\ ret' = None
               ELSE /\ UNCHANGED <<children, parent, entities_components>>
                    /\ ret' = None
       ELSE /\ UNCHANGED <<cameras, components, children, parent, entities_components>>
            /\ ret' = None

\* -------------------------------------------------------- addEntityChild
addEntityChild(entity_parent, entity_child) ==
    /\ call' = [op |-> "addEntityChild", a |-> entity_parent, b |-> entity_child]
    /\ ret' = None
    /\ UNCHANGED registry
    /\ UNCHANGED others
    /\ IF /\ entity_parent \in Entities
          /\ entity_child \in Entities
          /\ parent[entity_child] # entity_parent
       THEN IF EntityAddRaises(parent, entity_parent, entity_child)
            THEN /\ raised' = "InvalidHierarchy"
                 /\ UNCHANGED <<children, parent>>
            ELSE /\ Size < MaxSize
                 /\ raised' = "none"
                 /\ children' = EntityAddChildren(children, entity_parent, entity_child)
                 /\ parent' = EntityAddParent(parent, entity_parent, entity_child)
       ELSE /\ raised' = "none"
            /\ UNCHANGED <<children, parent>>

\* ------------------------------------------------------------------ Spec
Next ==
    \/ \E x \in EntityArgs : createEntity(x)
    \/ \E x \in SceneEntities, y \in ComponentArgs : addComponent(x, y)
    \/ \E x \in SceneEntities, y \in SceneEntities : addEntityChild(x, y)

Spec == Init /\ [][Next]_vars

\* -------------------------------------------------------- traverse_visit
\* iterator objects, as createIterator(entity) returns them, and a class
IteratorObjects == {"it_e1", "it_e2"}
IteratorClasses == {"CompNullIterator"}
IteratorArgs == IteratorObjects \cup IteratorClasses

\* the entity whose subtree an iterator object walks
IteratorRoot(it) == IF it = "it_e1" THEN "e1" ELSE "e2"

\* issubclass(iterator, Iterator) raises TypeError unless iterator is a class
IsSubclassRaises(iterator) == iterator \notin IteratorClasses

\* the body of traverse_visit is "pass": no node is visited
traverse_visit(system, iterator) ==
    /\ call' = [op |-> "traverse_visit", a |-> system, b |-> iterator]
    /\ ret' = None
    /\ raised' = IF system \in Systems /\ IsSubclassRaises(iterator)
                 THEN "TypeError" ELSE "none"
    /\ visits' = <<>>
    /\ UNCHANGED registry
    /\ UNCHANGED <<children, parent, instance, allocated, fields, kwargs>>

\* the registry together with its traversal entry point
VisitNext ==
    \/ Next
    \/ \E x \in Systems \cup {"e1"}, y \in IteratorArgs : traverse_visit(x, y)

SpecVisit == Init /\ [][VisitNext]_vars

\* ------------------------------------------------------- ECSSManager()
NewInstance_Always(inst, alloc) == alloc + 1

\* __new__: a new object only while cls._instance is None
NewInstance(inst, alloc) == IF inst = 0 THEN alloc + 1 ELSE inst

\* ECSSManager(): __new__, then __init__ on the object __new__ returned
Construct ==
    /\ instance' = NewInstance(instance, allocated)
    /\ allocated' = IF instance' # instance THEN allocated + 1 ELSE allocated
    /\ systems' = <<>>
    /\ components' = <<>>
    /\ entities' = <<>>
    /\ cameras' = <<>>
    /\ entities_components' = <<>>
    /\ root' = None
    /\ call' = [op |-> "ECSSManager", a |-> None, b |-> None]
    /\ ret' = ToString(instance')
    /\ raised' = "none"
    /\ UNCHANGED <<children, parent, fields, visits, kwargs>>

\* before the first access: no instance yet
InitSingleton ==
    /\ entities = <<>>
    /\ components = <<>>
    /\ cameras = <<>>
    /\ systems = <<>>
    /\ entities_components = <<>>
    /\ root = None
    /\ children = [e \in Entities |-> <<>>]
    /\ parent = [n \in Objects |-> n]
    /\ call = [op |-> "init", a |-> None, b |-> None]
    /\ ret = None
    /\ raised = "none"
    /\ instance = 0
    /\ allocated = 0
    /\ fields = [c \in Components |-> ComponentInit(c)]
    /\ visits = <<>>
    /\ kwargs = NoKwargs

\* what the entities carry, over all of them
RECURSIVE Attached(_)
Attached(S) ==
    IF S = {} THEN 0
    ELSE LET e == CHOOSE x \in S : TRUE
         IN  Len(children[e]) + Attached(S \ {e})

\* the components attached between the accesses: a Transform and a Camera
SingletonComponents == {"t1", "c1"}

\* accesses to the registry class, and calls on the instance once it exists
SingletonNext ==
    \/ Construct
    \/ /\ instance # 0
       /\ \E x \in SceneEntities : createEntity(x)
    \/ /\ instance # 0
       /\ Attached(Entities) < MaxSize
       /\ \E x \in SceneEntities, y \in SingletonComponents : addComponent(x, y)

SpecSingleton == InitSingleton /\ [][SingletonNext]_vars

\* ------------------------------------------------- the Component methods
\* Component.add(object): "pass"
componentAdd(c, object) ==
    /\ call' = [op |-> "add", a |-> c, b |-> object]
    /\ ret' = None
    /\ raised' = "none"
    /\ UNCHANGED registry
    /\ kwargs' = NoKwargs
    /\ UNCHANGED <<children, parent, instance, allocated, fields, visits>>

\* Component.getNumberOfChildren(): len(self._children); the attribute is
\* missing on an object whose constructor did not set it
getNumberOfChildren(c) ==
    /\ call' = [op |-> "getNumberOfChildren", a |-> c, b |-> None]
    /\ IF "children" \in DOMAIN fields[c]
       THEN /\ ret' = ToString(Len(fields[c].children))
            /\ raised' = "none"
       ELSE /\ ret' = None
            /\ raised' = "AttributeError"
    /\ UNCHANGED registry
    /\ kwargs' = NoKwargs
    /\ UNCHANGED <<children, parent, instance, allocated, fields, visits>>

\* "if arg in kwargs: self._arg = kwargs[arg]" for each arg of the list
SetFields(f, args, kw) ==
    [a \in DOMAIN f |->
        IF a \in args /\ kw[a] # Absent THEN kw[a] ELSE f[a]]

\* the keyword names each class's update() looks for; RenderMesh.update(self)
\* takes no keyword argument at all
UpdateArgs(k) ==
    CASE k = "BasicTransform" -> {"l2world", "trs", "l2cam"}
      [] k = "Camera" -> {"root2cam"}
      [] OTHER -> {}

UpdateRaises(k, kw) == k = "RenderMesh" /\ Given(kw) # {}

update(c, kw) ==
    /\ call' = [op |-> "update", a |-> c, b |-> None]
    /\ kwargs' = kw
    /\ ret' = None
    /\ IF UpdateRaises(Kind(c), kw)
       THEN /\ raised' = "TypeError"
            /\ UNCHANGED fields
       ELSE /\ raised' = "none"
            /\ fields' = [fields EXCEPT ![c] = SetFields(@, UpdateArgs(Kind(c)), kw)]
    /\ UNCHANGED registry
    /\ UNCHANGED <<children, parent, instance, allocated, visits>>

AcceptCalls_ApplyOnly(k) == <<"apply">>

\* the System methods accept() of each class calls, in order
AcceptCalls(k) ==
    CASE k = "BasicTransform" -> <<"apply", "applyCamera">>
      [] k = "Camera" -> <<"apply">>
      [] OTHER -> <<"apply">>

accept(c, system) ==
    /\ call' = [op |-> "accept", a |-> c, b |-> system]
    /\ ret' = None
    /\ raised' = "none"
    /\ visits' = [i \in 1..Len(AcceptCalls(Kind(c))) |->
                     [op |-> AcceptCalls(Kind(c))[i], node |-> c]]
    /\ UNCHANGED registry
    /\ kwargs' = NoKwargs
    /\ UNCHANGED <<children, parent, instance, allocated, fields>>

\* next(iter(c)): __iter__ gives a CompNullIterator, whose __next__ returns None
iteratorNext(c) ==
    /\ call' = [op |-> "__next__", a |-> c, b |-> None]
    /\ ret' = None
    /\ raised' = "none"
    /\ UNCHANGED registry
    /\ kwargs' = NoKwargs
    /\ UNCHANGED <<children, parent, instance, allocated, fields, visits>>

\* one object of each concrete class
LeafComponents == {"t1", "c1", "r1"}

ComponentNext ==
    \/ \E c \in LeafComponents, x \in RenderMeshes : componentAdd(c, x)
    \/ \E c \in LeafComponents : getNumberOfChildren(c)
    \/ \E c \in LeafComponents, kw \in Kwargs : update(c, kw)
    \/ \E c \in LeafComponents, x \in Systems : accept(c, x)
    \/ \E c \in LeafComponents : iteratorNext(c)

SpecComponent == Init /\ [][ComponentNext]_vars

\* ---------------------------------------------------------- createSystem
\* createSystem(system): a System joins _systems, anything else is ignored;
\* the argument is returned either way
createSystem(system) ==
    /\ system \in Systems => Size + Len(systems) < MaxSize
    /\ systems' = IF system \in Systems THEN Append(systems, system) ELSE systems
    /\ call' = [op |-> "createSystem", a |-> system, b |-> None]
    /\ ret' = system
    /\ raised' = "none"
    /\ UNCHANGED <<entities, components, cameras, entities_components, root>>
    /\ UNCHANGED <<children, parent>>
    /\ UNCHANGED others

\* the four registering methods of one registry instance
RegistryNext ==
    \/ Next
    \/ \E x \in Systems \cup {"e1"} : createSystem(x)

SpecRegistry == Init /\ [][RegistryNext]_vars

\* the hierarchy alone: addEntityChild over all the entities
TreeNext == \E x \in Entities, y \in Entities : addEntityChild(x, y)

SpecTree == Init /\ [][TreeNext]_vars

\* ======================================================== the properties
Registered == Range(entities)
Kinds == {"BasicTransform", "Camera", "RenderMesh"}

\* the components of kind k among what entity e carries under children ch
CarriedOfKind(ch, e, k) ==
    Restrict(Restrict(ch[e], Components), {c \in Components : Kind(c) = k})

\* the places (entity, index) where component c is carried by a registered entity
Places(c) ==
    UNION {{<<e, i>> : i \in {j \in 1..Len(children[e]) : children[e][j] = c}} :
              e \in Registered}

\* C1: replacement law.  When a registered Entity e carries exactly one
\* Transform t1, then after addComponent(e, t2) with another Transform t2,
\* e carries exactly one Transform, which is t2, and the registry's global
\* component collection does not contain t1 any more.
C1_ReplacementLaw ==
    [][\A e \in Entities, t1 \in Transforms, t2 \in Transforms :
          ( /\ e \in Registered
            /\ t1 # t2
            /\ CarriedOfKind(children, e, "BasicTransform") = <<t1>>
            /\ call' = [op |-> "addComponent", a |-> e, b |-> t2] )
          => ( /\ CarriedOfKind(children', e, "BasicTransform") = <<t2>>
               /\ t1 \notin Range(components') )]_vars

\* C2: every registered Entity carries at most one component of each concrete
\* kind (Transform, Camera, RenderMesh).
C2_OnePerKind ==
    \A e \in Registered, k \in Kinds : Len(CarriedOfKind(children, e, k)) <= 1

\* C3: for every registered Entity e, the entity->components mapping entry of
\* e holds exactly the components that e itself carries.
C3_MappingAgrees ==
    \A e \in Registered :
        /\ e \in DOMAIN entities_components
        /\ Range(Restrict(entities_components[e], Components))
              = Range(EntityComponents(e))

\* C4: every attached component is owned by exactly one Entity: it is carried
\* at exactly one place of exactly one registered entity, and its parent is
\* that entity.
C4_SingleOwner ==
    \A c \in Components :
        Places(c) # {} =>
            /\ Cardinality(Places(c)) = 1
            /\ \A pl \in Places(c) : parent[c] = pl[1]

\* C5: addComponent(e, c) with an Entity e that was never registered fails
\* with UnknownEntity.
C5_UnknownEntity ==
    ( /\ call.op = "addComponent"
      /\ call.a \in Entities
      /\ call.b \in Components
      /\ call.a \notin Registered )
    => raised = "UnknownEntity"

\* C6: an addComponent(e, c) with an unregistered Entity e, which attaches
\* nothing, leaves every registry collection (entities, components, cameras,
\* systems, entity->components mapping, root) as it was.
C6_NothingHalfApplied ==
    [][( /\ call'.op = "addComponent"
         /\ call'.a \in Entities
         /\ call'.a \notin Registered )
       => UNCHANGED registry]_vars

\* C7: createEntity(e) with an already registered Entity e fails with
\* DuplicateRegistration; the entities collection does not get e a second
\* time and the components recorded for e in the mapping are kept.
C7_DuplicateRegistration ==
    [][( /\ call'.op = "createEntity"
         /\ call'.a \in Registered )
       => ( /\ raised' = "DuplicateRegistration"
            /\ entities' = entities
            /\ entities_components' = entities_components )]_vars

\* C8: after createEntity(e) with an Entity e, e is in the entities
\* collection, has an entry in the entity->components mapping and is the
\* returned value; the root is e if e's name is "root" in any letter case,
\* and is the root of before the call otherwise.
C8_CreateEntity ==
    [][\A e \in Entities :
          call' = [op |-> "createEntity", a |-> e, b |-> None]
          => ( /\ e \in Range(entities')
               /\ e \in DOMAIN entities_components'
               /\ ret' = e
               /\ raised' = "none"
               /\ root' = IF Lower(EntityName(e)) = RootName THEN e ELSE root )]_vars

\* an Entity whose name is "root" only after lowering has become the root
C8_Witness ==
    /\ call.op = "createEntity"
    /\ call.a \in Entities
    /\ EntityName(call.a) # RootName
    /\ root = call.a
    /\ ret = call.a
    /\ \E e \in Registered : e # root

\* C9: after addComponent(e, c) with a registered Entity e and a Camera c,
\* c is in the camera collection; and the camera collection holds Camera
\* components only.
C9_Cameras ==
    /\ ( /\ call.op = "addComponent"
         /\ call.a \in Registered
         /\ call.b \in CameraComps )
       => call.b \in Range(cameras)
    /\ \A i \in 1..Len(cameras) : cameras[i] \in CameraComps

\* a Camera was added to a registered Entity that already carries a component
\* of another kind, and other components are recorded in the registry
C9_Witness ==
    /\ call.op = "addComponent"
    /\ call.a \in Registered
    /\ call.b \in CameraComps
    /\ call.b \in Range(cameras)
    /\ call.b \in Range(children[call.a])
    /\ components # <<>>

\* C10: every component attached to a registered Entity, a Camera included,
\* is contained in the registry's global component collection.
C10_AllInComponents ==
    \A e \in Registered :
        \A c \in Range(EntityComponents(e)) : c \in Range(components)

\* C11: addComponent(e, c) with a registered Entity e and a Component c
\* returns c, when c is appended as a new kind and when c replaces a
\* component of the same kind alike.
C11_ReturnsComponent ==
    ( /\ call.op = "addComponent"
      /\ call.a \in Registered
      /\ call.b \in Components )
    => ret = call.b

\* how often node n occurs among the children of entity e
Occurrences(e, n) == Len(Restrict(children[e], {n}))

\* the entities below e
RECURSIVE DescendantsFrom(_, _)
DescendantsFrom(S, fuel) ==
    IF fuel = 0 THEN S
    ELSE DescendantsFrom(S \cup UNION {Range(EntityChildren(x)) : x \in S}, fuel - 1)

Descendants(e) == DescendantsFrom(Range(EntityChildren(e)), Cardinality(Entities))

\* C12: after an addEntityChild(p, c) with distinct Entities p and c that
\* was not rejected as a cycle, whatever addEntityChild calls came before,
\* the parent of c is p and p has c exactly once among its children.
C12_ChildOnce ==
    ( /\ call.op = "addEntityChild"
      /\ call.a \in Entities
      /\ call.b \in Entities
      /\ call.a # call.b
      /\ raised = "none" )
    => ( /\ parent[call.b] = call.a
         /\ Occurrences(call.a, call.b) = 1 )

\* C13: cycle rejection.  addEntityChild(x, x) fails with InvalidHierarchy,
\* and so does addEntityChild(d, a) for an entity a above d; no Entity is
\* ever its own descendant.
C13_CycleRejection ==
    /\ ( /\ call.op = "addEntityChild"
         /\ call.a \in Entities
         /\ call.b \in Entities
         /\ (call.a = call.b \/ call.b \in Ancestors(parent, call.a)) )
       => raised = "InvalidHierarchy"
    /\ \A e \in Entities : e \notin Descendants(e)

\* the accept calls a pre-order walk from entity e makes: the components of
\* a node in attachment order, the node before its child entities, those in
\* insertion order
RECURSIVE ExpectedAccepts(_, _)
ExpectedAccepts(e, fuel) ==
    LET RECURSIVE Below(_)
        Below(kids) ==
            IF kids = <<>> \/ fuel = 0 THEN <<>>
            ELSE ExpectedAccepts(Head(kids), fuel - 1) \o Below(Tail(kids))
        own == [i \in 1..Len(EntityComponents(e)) |->
                   [op |-> "accept", node |-> EntityComponents(e)[i]]]
    IN  own \o Below(EntityChildren(e))

\* C14: traverse_visit, given a System and the traversal of the subtree
\* rooted at an Entity, visits the nodes in pre-order and invokes
\* accept(system) exactly once on every Component of every visited node, in
\* attachment order.
C14_TraverseVisit ==
    ( /\ call.op = "traverse_visit"
      /\ call.a \in Systems
      /\ call.b \in IteratorObjects )
    => visits = ExpectedAccepts(IteratorRoot(call.b), Cardinality(Entities))

\* C15: the registry is a singleton: every ECSSManager() returns the
\* instance the class holds, and once the class holds an instance a later
\* access never replaces it, so each access returns the instance of the first.
C15_Singleton ==
    [][call'.op = "ECSSManager"
       => ( /\ instance' # 0
            /\ ret' = ToString(instance')
            /\ instance # 0 => instance' = instance )]_vars

\* an access made after the instance had been used (an entity carries a
\* component) returned the instance of the first access
C15_Witness ==
    /\ call.op = "ECSSManager"
    /\ ret = ToString(instance)
    /\ instance = 1
    /\ allocated = 1
    /\ \E e \in Entities : children[e] # <<>>

\* C16: an access after the first leaves entities, components, systems,
\* cameras, the entity->components mapping and the root as they were.
C16_LaterAccessKeepsState ==
    [][(call'.op = "ECSSManager" /\ instance # 0)
       => UNCHANGED registry]_vars

\* C17: getNumberOfChildren() returns 0, without failing, on every leaf kind
\* (Transform, Camera, RenderMesh), also after add(child) was called on it.
C17_LeafHasNoChildren ==
    ( /\ call.op = "getNumberOfChildren"
      /\ call.a \in Components )
    => ( /\ raised = "none"
         /\ ret = ToString(0) )

\* the option names the claim counts as recognized, per kind
RecognizedOptions(k) ==
    CASE k = "BasicTransform" -> {"trs", "l2world", "l2cam"}
      [] k = "Camera" -> {"root2cam"}
      [] OTHER -> {}

\* C18: update(options) completes without error for every kind and every
\* set of options; afterwards each data field has the supplied value if its
\* recognized option was given and its previous value otherwise, and no
\* other component has changed.
C18_Update ==
    [][call'.op = "update"
       => LET c == call'.a
              kw == kwargs'
          IN  /\ raised' = "none"
              /\ \A a \in DOMAIN fields[c] :
                    fields'[c][a] =
                        IF a \in RecognizedOptions(Kind(c)) /\ kw[a] # Absent
                        THEN kw[a] ELSE fields[c][a]
              /\ \A d \in Components \ {c} : fields'[d] = fields[d]]_vars

\* the method names a list of visits holds, in order
VisitOps == [i \in 1..Len(visits) |-> visits[i].op]

\* C19 as stated: accept(system) of a Transform invokes apply and then
\* applyCamera; of a Camera only the camera operation (applyCamera), never
\* the generic apply; of a RenderMesh only its draw operation (apply of the
\* render system); each once, on the component itself.
C19_DispatchAsStated ==
    call.op = "accept"
    => /\ \A i \in 1..Len(visits) : visits[i].node = call.a
       /\ VisitOps = CASE Kind(call.a) = "BasicTransform" -> <<"apply", "applyCamera">>
                       [] Kind(call.a) = "Camera" -> <<"applyCamera">>
                       [] OTHER -> <<"apply">>

\* C19, amended: accept(system) of a Transform invokes apply and then
\* applyCamera; of a Camera only the generic apply, once, and never
\* applyCamera; of a RenderMesh only apply, once; always on the component
\* itself.
C19_Dispatch ==
    call.op = "accept"
    => /\ \A i \in 1..Len(visits) : visits[i].node = call.a
       /\ VisitOps = CASE Kind(call.a) = "BasicTransform" -> <<"apply", "applyCamera">>
                       [] Kind(call.a) = "Camera" -> <<"apply">>
                       [] OTHER -> <<"apply">>

\* a Transform has been visited: both System methods were invoked on it
C19_Witness ==
    /\ call.op = "accept"
    /\ call.a \in Transforms
    /\ visits = <<[op |-> "apply", node |-> call.a],
                  [op |-> "applyCamera", node |-> call.a]>>

\* C20: iterating a leaf component ends: its iterator has no child to yield,
\* so __next__ signals exhaustion (StopIteration) instead of yielding a value.
C20_NullIteratorEnds ==
    ( /\ call.op = "__next__"
      /\ call.a \in Components )
    => raised = "StopIteration"

\* C21: after any sequence of createEntity, createSystem, addComponent and
\* addEntityChild calls on one registry instance, the keys of the
\* entity->components mapping are exactly the entities of the entities
\* collection, and the root is unset or one of those entities.
C21_MappingKeysAndRoot ==
    /\ DOMAIN entities_components = Range(entities)
    /\ root = None \/ root \in Range(entities)

\* a registry that has seen all four methods act: a root and another entity
\* are registered and linked, a component is attached, a system is registered
C21_Witness ==
    /\ root \in Range(entities)
    /\ Range(entities) \ {root} # {}
    /\ systems # <<>>
    /\ \E e \in Registered : EntityComponents(e) # <<>>
    /\ \E e \in Registered : EntityChildren(e) # <<>>

====
